---- MODULE Spec2Model ----
(***************************************************************************)
(* Model of fqe/fqe_decorators.py (OpenFermion-FQE): the conversion of a   *)
(* FermionOperator into one of the fqe Hamiltonian classes.                *)
(*                                                                         *)
(* Every function of the file is a pure function of its arguments, so each *)
(* function is an operator and each call is one action: the action takes   *)
(* the argument held in `ops` (with the keyword arguments in `kw`) and     *)
(* stores what the call returns or raises in `out`.                        *)
(***************************************************************************)
EXTENDS Integers, Sequences, FiniteSets, TLC

VARIABLES ops, kw, called, out

vars == <<ops, kw, called, out>>

(***************************************************************************)
(* Bounds of the model.                                                    *)
(***************************************************************************)
\* largest spin-orbital index of the expressions given to build_hamiltonian
MaxIndex == 2
\* most factors of a term given to transform_to_spin_broken and
\* split_openfermion_tensor
MaxFactors == 3
\* largest spin-orbital index and largest norb given to fermionops_tomatrix
MaxIndexM == 7
MaxNorbM == 5
\* largest norb and most non-zero lower-triangle entries of the matrices
\* given to process_rank2_matrix
MaxNorbR == 2
MaxNonzero == 3

(***************************************************************************)
(* numpy.complex128 values.  A value is re + i*im with                     *)
(*      re = rh * 0.5 + rt * 1e-8      im = ih * 0.5 + it * 1e-8           *)
(* so that the coefficients of the examples (2.0, -1.5) and values of the  *)
(* size of numpy's absolute tolerance (1e-8) live in one lattice.  The     *)
(* model keeps |rh|,|ih| below 1000 and |rt|,|it| below 100.               *)
(***************************************************************************)
Num(rh, rt, ih, it) == [rh |-> rh, rt |-> rt, ih |-> ih, it |-> it]

Zero == Num(0, 0, 0, 0)

Real(halves) == Num(halves, 0, 0, 0)

TinyReal == Num(0, 1, 0, 0)

TinyImag == Num(0, 0, 0, 1)

NAdd(a, b) == Num(a.rh + b.rh, a.rt + b.rt, a.ih + b.ih, a.it + b.it)

NNeg(a) == Num(-a.rh, -a.rt, -a.ih, -a.it)

NConj(a) == Num(a.rh, a.rt, -a.ih, -a.it)

\* a != 0. + 0.j
NonZero(a) == a # Zero

\* numpy.allclose on one element: |a - b| <= atol + rtol * |b| with
\* atol = 1e-8 and rtol = 1e-5.  A difference in the 0.5-lattice part is at
\* least 0.5 - 3e-6 and exceeds the tolerance (at most 1e-8 + 1e-5 * 1500);
\* otherwise the difference is below 3e-6: it is within rtol * |b| when b has
\* a 0.5-lattice part (|b| >= 0.5 - 2e-6, rtol * |b| > 4.9e-6), and when b is
\* of size 1e-8 the tolerance is atol alone (rtol * |b| < 2e-11), i.e. the
\* squared difference in units of 1e-8 is at most 1.
IsClose(a, b) ==
    /\ a.rh = b.rh
    /\ a.ih = b.ih
    /\ \/ b.rh # 0
       \/ b.ih # 0
       \/ (a.rt - b.rt) * (a.rt - b.rt) + (a.it - b.it) * (a.it - b.it) <= 1

\* openfermion: abs(coefficient) < EQ_TOLERANCE (1e-8)
IsSmall(a) == a.rh = 0 /\ a.ih = 0 /\ a.rt * a.rt + a.it * a.it < 1

(***************************************************************************)
(* FermionOperator.  A factor is <<index, action>> with action 1 for a     *)
(* creation and 0 for an annihilation operator; a term is a sequence of    *)
(* factors; `terms` is the dict of the operator in insertion order: a      *)
(* sequence of [term, coeff] records with pairwise different terms.        *)
(***************************************************************************)
FermionOperator(terms) == [kind |-> "FermionOperator", terms |-> terms]

Entry(term, coeff) == [term |-> term, coeff |-> coeff]

TermsOf(tseq) == {tseq[k].term : k \in 1..Len(tseq)}

IndexOfTerm(tseq, term) ==
    IF term \in TermsOf(tseq)
    THEN (CHOOSE k \in 1..Len(tseq) : tseq[k].term = term)
    ELSE 0

\* dict lookup with default zero
Lookup(tseq, term) ==
    IF term \in TermsOf(tseq) THEN tseq[IndexOfTerm(tseq, term)].coeff ELSE Zero

RECURSIVE RemoveAt(_, _)
RemoveAt(s, k) ==
    IF s = <<>> THEN <<>>
    ELSE IF k = 1 THEN Tail(s)
    ELSE <<Head(s)>> \o RemoveAt(Tail(s), k - 1)

\* SymbolicOperator.__iadd__ with a single-term addend
AddTerm(tseq, term, coeff) ==
    IF term \in TermsOf(tseq)
    THEN LET k == IndexOfTerm(tseq, term)
             c == NAdd(tseq[k].coeff, coeff)
         IN  IF IsSmall(c) THEN RemoveAt(tseq, k)
             ELSE [tseq EXCEPT ![k].coeff = c]
    ELSE Append(tseq, Entry(term, coeff))

\* SymbolicOperator.__iadd__
RECURSIVE AddAll(_, _)
AddAll(tseq, addend) ==
    IF addend = <<>> THEN tseq
    ELSE AddAll(AddTerm(tseq, Head(addend).term, Head(addend).coeff), Tail(addend))

MaxOf(S, default) ==
    IF S = {} THEN default
    ELSE CHOOSE y \in S : \A z \in S : z <= y

\* SymbolicOperator.many_body_order
ManyBodyOrder(tseq) == MaxOf({Len(tseq[k].term) : k \in 1..Len(tseq)}, 0)

Return(value) == [status |-> "return", value |-> value]

Raise(error) == [status |-> "raise", error |-> error]

(***************************************************************************)
(* transform_to_spin_broken                                                *)
(***************************************************************************)
\* the token with the parity test inverted: the two outer branches swapped
OpstrTokenBranchesSwapped(element) ==
    IF element[1] % 2 = 0
    THEN [digits |-> element[1], caret |-> (element[2] # 1)]
    ELSE [digits |-> element[1], caret |-> (element[2] = 1)]

\* one pass of the inner loop: the text appended to opstr for one element,
\* str(element[0]) followed by '^ ' or ' '
OpstrToken(element) ==
    IF element[1] % 2 = 1
    THEN IF element[2] = 1
         THEN [digits |-> element[1], caret |-> FALSE]
         ELSE [digits |-> element[1], caret |-> TRUE]
    ELSE IF element[2] = 1
         THEN [digits |-> element[1], caret |-> TRUE]
         ELSE [digits |-> element[1], caret |-> FALSE]

\* FermionOperator(opstr, coefficient): 'p^' is the factor (p, 1) and 'p'
\* the factor (p, 0), in the order written
ParseOpstr(opstr) ==
    [k \in 1..Len(opstr) |->
        <<opstr[k].digits, IF opstr[k].caret THEN 1 ELSE 0>>]

RECURSIVE SpinBrokenLoop(_, _)
SpinBrokenLoop(tseq, newstr) ==
    IF tseq = <<>> THEN newstr
    ELSE LET term == Head(tseq).term
             opstr == [k \in 1..Len(term) |-> OpstrToken(term[k])]
         IN  SpinBrokenLoop(Tail(tseq),
                            AddTerm(newstr, ParseOpstr(opstr), Head(tseq).coeff))

transform_to_spin_broken(tseq) == SpinBrokenLoop(tseq, <<>>)

(***************************************************************************)
(* split_openfermion_tensor                                                *)
(* `split` is the dict rank -> FermionOperator in insertion order: a       *)
(* sequence of [rank, terms] records.                                      *)
(***************************************************************************)
RanksOf(split) == {split[k].rank : k \in 1..Len(split)}

IndexOfRank(split, rank) == CHOOSE k \in 1..Len(split) : split[k].rank = rank

RECURSIVE SplitLoop(_, _, _)
SplitLoop(tseq, split, e_0) ==
    IF tseq = <<>> THEN Return([split |-> split, e_0 |-> e_0])
    ELSE LET term == Head(tseq)
             rank == ManyBodyOrder(<<term>>)
         IN  IF rank % 2 = 1 THEN Raise("ValueError")
             ELSE IF rank = 0
             THEN SplitLoop(Tail(tseq), split, NAdd(e_0, term.coeff))
             ELSE IF rank \notin RanksOf(split)
             THEN SplitLoop(Tail(tseq),
                            Append(split, [rank |-> rank, terms |-> <<term>>]),
                            e_0)
             ELSE LET k == IndexOfRank(split, rank)
                  IN  SplitLoop(Tail(tseq),
                                [split EXCEPT ![k].terms =
                                    AddTerm(@, term.term, term.coeff)],
                                e_0)

\* the split with the odd-rank test looking at the first term only
split_checks_first_term_only(tseq) ==
    IF tseq # <<>> /\ Len(Head(tseq).term) % 2 = 1
    THEN Raise("ValueError")
    ELSE SplitLoop(SelectSeq(tseq, LAMBDA e : Len(e.term) % 2 = 0), <<>>, Zero)

split_openfermion_tensor(tseq) == SplitLoop(tseq, <<>>, Zero)

(***************************************************************************)
(* Dense tensors (numpy.ndarray): the shape and the entries that are not   *)
(* zero, by coordinate (0-based); every other entry is zero.               *)
(***************************************************************************)
Zeros(shape) == [shape |-> shape, data |-> [c \in {} |-> Zero]]

TensorGet(t, c) == IF c \in DOMAIN t.data THEN t.data[c] ELSE Zero

TensorSet(t, c, v) ==
    LET D == IF v = Zero THEN DOMAIN t.data \ {c} ELSE DOMAIN t.data \cup {c}
    IN  [t EXCEPT !.data = [x \in D |-> IF x = c THEN v ELSE t.data[x]]]

InRange(t, c) ==
    /\ Len(c) = Len(t.shape)
    /\ \A a \in 1..Len(c) : c[a] >= 0 /\ c[a] < t.shape[a]

(***************************************************************************)
(* fqe.openfermion_utils.largest_operator_index: the largest even and the  *)
(* largest odd index of the operator, -1 when there is none.               *)
(***************************************************************************)
IndicesOf(tseq) ==
    UNION {{t[f][1] : f \in 1..Len(t)} : t \in TermsOf(tseq)}

largest_operator_index(tseq) ==
    <<MaxOf({p \in IndicesOf(tseq) : p % 2 = 0}, -1),
      MaxOf({p \in IndicesOf(tseq) : p % 2 = 1}, -1)>>

(***************************************************************************)
(* fermionops_tomatrix                                                     *)
(***************************************************************************)
\* lines 167-180: the dimension of every axis, or the error raised
TomatrixDim(tseq, norb) ==
    LET largest == largest_operator_index(tseq)
        ablk == largest[1] \div 2 + 1
        bblk == (largest[2] - 1) \div 2 + 1
    IN  IF norb # 0
        THEN IF norb < ablk THEN Raise("ValueError")
             ELSE IF norb < bblk THEN Raise("ValueError")
             ELSE Return(2 * norb)
        ELSE Return(IF 2 * ablk >= 2 * bblk THEN 2 * ablk ELSE 2 * bblk)

\* the coordinate without the blocking: the spin-orbital index itself
BlockedIndexInterleaved(index, ablk) == index

\* lines 208-211: the coordinate of a spin-orbital index
BlockedIndex(index, ablk) ==
    IF index % 2 = 1 THEN (index - 1) \div 2 + ablk ELSE index \div 2

\* lines 196-206: the first i of range(rank) at which the term raises, and
\* what it raises; term[i] of a term shorter than rank is an IndexError
TermError(term, rank) ==
    LET Bad(i) ==
            \/ i > Len(term)
            \/ (i <= rank \div 2 /\ term[i][2] = 0)
            \/ (i > rank \div 2 /\ term[i][2] = 1)
        bad == {i \in 1..rank : Bad(i)}
    IN  IF bad = {} THEN "none"
        ELSE IF MaxOf({-i : i \in bad}, 0) = -(Len(term) + 1) THEN "IndexError"
        ELSE "ValueError"

\* lines 194-215: the loop over the terms; `masks` collects the value of
\* index_mask at each write
RECURSIVE TomatrixLoop(_, _, _, _, _)
TomatrixLoop(tseq, rank, ablk, tensor, masks) ==
    IF tseq = <<>> THEN [status |-> "return", value |-> tensor, index_masks |-> masks]
    ELSE LET term == Head(tseq).term
             err == TermError(term, rank)
             index_mask == [i \in 1..rank |-> BlockedIndex(term[i][1], ablk)]
         IN  IF err # "none" THEN Raise(err)
             ELSE IF ~InRange(tensor, index_mask) THEN Raise("IndexError")
             ELSE TomatrixLoop(Tail(tseq), rank, ablk,
                               TensorSet(tensor, index_mask,
                                         NAdd(TensorGet(tensor, index_mask),
                                              Head(tseq).coeff)),
                               Append(masks, index_mask))

\* lines 182-217, with ablk as line 182 leaves it
TomatrixBody(tseq, dim, ablk) ==
    LET rank == ManyBodyOrder(tseq)
    IN  IF rank % 2 = 1 THEN Raise("ValueError")
        ELSE TomatrixLoop(tseq, rank, ablk, Zeros([i \in 1..rank |-> dim]), <<>>)

\* the function without line 182: ablk stays the number of alpha orbitals
\* the operator refers to
fermionops_tomatrix_stale_ablk(tseq, norb) ==
    LET dim == TomatrixDim(tseq, norb)
    IN  IF dim.status = "raise" THEN dim
        ELSE TomatrixBody(tseq, dim.value, largest_operator_index(tseq)[1] \div 2 + 1)

fermionops_tomatrix(tseq, norb) ==
    LET dim == TomatrixDim(tseq, norb)
    IN  IF dim.status = "raise" THEN dim
        ELSE TomatrixBody(tseq, dim.value, dim.value \div 2)

(***************************************************************************)
(* The classes of fqe.hamiltonians.  A constructor stores the tensors it   *)
(* is given, the conserve_number flag and e_0; two objects are equal when  *)
(* they are of one class and hold equal contents.                          *)
(***************************************************************************)
Hamiltonian(variant, tensors, conserve_number, e_0) ==
    [kind |-> "Hamiltonian", variant |-> variant, tensors |-> tensors,
     conserve_number |-> conserve_number, e_0 |-> e_0]

\* sparse_hamiltonian.SparseHamiltonian(norb, ops, conserve_number, e_0)
SparseHamiltonian(norb, tseq, conserve_number, e_0) ==
    [kind |-> "Hamiltonian", variant |-> "SparseHamiltonian", norb |-> norb,
     operators |-> tseq, conserve_number |-> conserve_number, e_0 |-> e_0]

(***************************************************************************)
(* process_rank2_matrix, for a square matrix                               *)
(***************************************************************************)
Min(a, b) == IF a <= b THEN a ELSE b

Max(a, b) == IF a >= b THEN a ELSE b

\* mat[r0:r1, c0:c1], the bounds clipped to the shape as numpy clips them
Slice(mat, r0, r1, c0, c1) ==
    LET rlo == Min(r0, mat.shape[1])
        rhi == Max(rlo, Min(r1, mat.shape[1]))
        clo == Min(c0, mat.shape[2])
        chi == Max(clo, Min(c1, mat.shape[2]))
        D == {c \in (0..(rhi - rlo - 1)) \X (0..(chi - clo - 1)) :
                 <<c[1] + rlo, c[2] + clo>> \in DOMAIN mat.data}
    IN  [shape |-> <<rhi - rlo, chi - clo>>,
         data |-> [c \in D |-> mat.data[<<c[1] + rlo, c[2] + clo>>]]]

Coords(shape) == (0..(shape[1] - 1)) \X (0..(shape[2] - 1))

\* mat.conj().T
ConjT(mat) ==
    [shape |-> <<mat.shape[2], mat.shape[1]>>,
     data |-> [c \in {<<d[2], d[1]>> : d \in DOMAIN mat.data} |->
                  NConj(mat.data[<<c[2], c[1]>>])]]

\* numpy.allclose(a, b) for arrays of one shape
AllClose(a, b) ==
    \A c \in Coords(a.shape) : IsClose(TensorGet(a, c), TensorGet(b, c))

\* mat.diagonal()
Diagonal1D(mat) ==
    LET D == {<<i>> : i \in {j \in 0..(mat.shape[1] - 1) : <<j, j>> \in DOMAIN mat.data}}
    IN  [shape |-> <<mat.shape[1]>>, data |-> [c \in D |-> mat.data[<<c[1], c[1]>>]]]

\* the scan with range(1, norb) in place of range(1, max(norb, mat.shape[0]))
LowerTriangleZeroUpToNorb(mat, norb) ==
    \A i \in 1..(norb - 1) : \A j \in 0..(i - 1) : ~NonZero(TensorGet(mat, <<i, j>>))

\* lines 301-307: the value of `diagonal` after the two loops
LowerTriangleZero(mat, norb) ==
    \A i \in 1..(Max(norb, mat.shape[1]) - 1) : \A j \in 0..(i - 1) :
        ~NonZero(TensorGet(mat, <<i, j>>))

\* line 314: mat[norb:2*norb, :norb].any()
CouplingBlockAny(mat, norb) ==
    DOMAIN Slice(mat, norb, 2 * norb, 0, norb).data # {}

\* line 324-326
SpinMat(mat, norb) ==
    LET aa == Slice(mat, 0, norb, 0, norb)
        bb == Slice(mat, norb, mat.shape[1], norb, mat.shape[2])
        D == DOMAIN aa.data \cup {<<c[1], c[2] + norb>> : c \in DOMAIN bb.data}
    IN  [shape |-> <<norb, 2 * norb>>,
         data |-> [c \in D |-> IF c[2] < norb THEN aa.data[c]
                                ELSE bb.data[<<c[1], c[2] - norb>>]]]

\* lines 298-329, norb not zero
ProcessRank2Body(mat, norb, conserve_number, e_0) ==
    IF norb > mat.shape[1] THEN Raise("IndexError")
    ELSE IF LowerTriangleZero(mat, norb)
    THEN Return(Hamiltonian("Diagonal", <<Diagonal1D(mat)>>, conserve_number, e_0))
    ELSE IF CouplingBlockAny(mat, norb)
    THEN Return(Hamiltonian("GSOHamiltonian", <<mat>>, conserve_number, e_0))
    ELSE LET aa == Slice(mat, 0, norb, 0, norb)
             bb == Slice(mat, norb, mat.shape[1], norb, mat.shape[2])
         IN  \* blocks of different shapes cannot be broadcast together
             \* (neither has a single element: the dimension is even)
             IF aa.shape # bb.shape THEN Raise("ValueError")
             ELSE IF AllClose(aa, bb)
             THEN Return(Hamiltonian("Restricted", <<mat>>, conserve_number, e_0))
             ELSE Return(Hamiltonian("SSOHamiltonian", <<SpinMat(mat, norb)>>,
                                     conserve_number, e_0))

process_rank2_matrix(mat, norb, conserve_number, e_0) ==
    IF ~AllClose(mat, ConjT(mat)) THEN Raise("ValueError")
    ELSE ProcessRank2Body(mat, IF norb = 0 THEN mat.shape[1] ELSE norb,
                          conserve_number, e_0)

(***************************************************************************)
(* check_diagonal_coulomb                                                  *)
(***************************************************************************)
\* the scan with the test `i == j and k == l`
check_diagonal_coulomb_wrong_pairs(mat) ==
    LET dim == mat.shape[1]
    IN  \A i \in 0..(dim - 1) : \A j \in 0..(dim - 1) :
        \A k \in 0..(dim - 1) : \A l \in 0..(dim - 1) :
            (i = j /\ k = l) \/ ~NonZero(TensorGet(mat, <<i, j, k, l>>))

check_diagonal_coulomb(mat) ==
    LET dim == mat.shape[1]
    IN  \A i \in 0..(dim - 1) : \A j \in 0..(dim - 1) :
        \A k \in 0..(dim - 1) : \A l \in 0..(dim - 1) :
            (i = k /\ j = l) \/ ~NonZero(TensorGet(mat, <<i, j, k, l>>))

(***************************************************************************)
(* openfermion.utils: normal_ordered, hermitian_conjugated, is_hermitian   *)
(***************************************************************************)
\* normal_ordered_ladder_term: the two loops `for i in range(1, len(term))`
\* and `for j in range(i, 0, -1)`, from the pass (i, j) on; acc is
\* ordered_term.  Python's term[j] is term[j + 1] here.
RECURSIVE NormalOrderedTerm(_, _), NormalOrderedFrom(_, _, _, _, _)
NormalOrderedFrom(term, coeff, i, j, acc) ==
    IF i >= Len(term) THEN AddTerm(acc, term, coeff)
    ELSE IF j <= 0 THEN NormalOrderedFrom(term, coeff, i + 1, i + 1, acc)
    ELSE LET right == term[j + 1]
             left == term[j]
             swapped == SubSeq(term, 1, j - 1) \o <<right, left>>
                            \o SubSeq(term, j + 2, Len(term))
         IN  IF right[2] = 1 /\ left[2] = 0
             THEN \* a a^ = 1 - a^ a when the indices agree
                  LET new_term == SubSeq(swapped, 1, j - 1)
                                      \o SubSeq(swapped, j + 2, Len(swapped))
                      acc2 == IF right[1] = left[1]
                              THEN AddAll(acc, NormalOrderedTerm(new_term, coeff))
                              ELSE acc
                  IN  NormalOrderedFrom(swapped, NNeg(coeff), i, j - 1, acc2)
             ELSE IF right[2] = left[2]
             THEN IF right[1] = left[1] THEN acc
                  ELSE IF right[1] > left[1]
                  THEN NormalOrderedFrom(swapped, NNeg(coeff), i, j - 1, acc)
                  ELSE NormalOrderedFrom(term, coeff, i, j - 1, acc)
             ELSE NormalOrderedFrom(term, coeff, i, j - 1, acc)

NormalOrderedTerm(term, coeff) == NormalOrderedFrom(term, coeff, 1, 1, <<>>)

RECURSIVE NormalOrderedLoop(_, _)
NormalOrderedLoop(tseq, ordered) ==
    IF tseq = <<>> THEN ordered
    ELSE NormalOrderedLoop(Tail(tseq),
                           AddAll(ordered,
                                  NormalOrderedTerm(Head(tseq).term, Head(tseq).coeff)))

normal_ordered(tseq) == NormalOrderedLoop(tseq, <<>>)

Reversed(term) == [k \in 1..Len(term) |-> term[Len(term) + 1 - k]]

hermitian_conjugated(tseq) ==
    [k \in 1..Len(tseq) |->
        Entry([f \in 1..Len(tseq[k].term) |->
                  <<Reversed(tseq[k].term)[f][1], 1 - Reversed(tseq[k].term)[f][2]>>],
              NConj(tseq[k].coeff))]

\* SymbolicOperator.__eq__: the same terms with coefficients within 1e-8,
\* which for coefficients that are multiples of 0.5 is equality
OperatorsEqual(a, b) ==
    \A t \in TermsOf(a) \cup TermsOf(b) : Lookup(a, t) = Lookup(b, t)

is_hermitian(tseq) ==
    OperatorsEqual(normal_ordered(tseq), normal_ordered(hermitian_conjugated(tseq)))

(***************************************************************************)
(* build_hamiltonian.  Besides what the call returns or raises, the result *)
(* records the functions the call went through (`calls`) and the value of  *)
(* the local variable norb when the call ended (`norb`).                   *)
(***************************************************************************)
\* diagonal_coulomb.DiagonalCoulomb(h2e, e_0)
DiagonalCoulomb(h2e, e_0) ==
    [kind |-> "Hamiltonian", variant |-> "DiagonalCoulomb", tensors |-> <<h2e>>,
     e_0 |-> e_0]

Ended(result, calls, norb) ==
    IF result.status = "return"
    THEN [status |-> "return", value |-> result.value, calls |-> calls, norb |-> norb]
    ELSE [status |-> "raise", error |-> result.error, calls |-> calls, norb |-> norb]

\* lines 74-77
RECURSIVE InferNorb(_, _)
InferNorb(ops_rank, norb) ==
    IF ops_rank = <<>> THEN norb
    ELSE LET largest == largest_operator_index(Head(ops_rank).terms)
         IN  InferNorb(Tail(ops_rank),
                       Max(norb + 1, Max(largest[1] \div 2 + 1, largest[2] \div 2 + 1)))

\* lines 79-81: ops_mat as a sequence of [rank, mat] records, or the error
\* of the first conversion that raises
RECURSIVE TomatrixEach(_, _, _)
TomatrixEach(ops_rank, norb, ops_mat) ==
    IF ops_rank = <<>> THEN Return(ops_mat)
    ELSE LET converted == fermionops_tomatrix(Head(ops_rank).terms, norb)
         IN  IF converted.status = "raise" THEN Raise(converted.error)
             ELSE TomatrixEach(Tail(ops_rank), norb,
                               Append(ops_mat, [rank |-> Head(ops_rank).rank,
                                                mat |-> converted.value]))

\* lines 95-105
GeneralOfRanks(ops_mat, norb, conserve_number, e_0) ==
    LET MatOf(i) ==
            IF \E k \in 1..Len(ops_mat) : ops_mat[k].rank = i
            THEN ops_mat[CHOOSE k \in 1..Len(ops_mat) : ops_mat[k].rank = i].mat
            ELSE Zeros([a \in 1..i |-> 2 * norb])
    IN  Hamiltonian("General", <<MatOf(2), MatOf(4), MatOf(6), MatOf(8)>>,
                    conserve_number, e_0)

\* the functions every call that reaches line 72 has gone through
DenseCalls(conserve_number) ==
    <<"is_hermitian">>
        \o (IF ~conserve_number THEN <<"transform_to_spin_broken">> ELSE <<>>)
        \o <<"normal_ordered", "split_openfermion_tensor">>

\* lines 84-105
Classify(ops_mat, norb, conserve_number, e_0) ==
    LET calls == DenseCalls(conserve_number) \o <<"fermionops_tomatrix">>
    IN  IF Len(ops_mat) = 1 /\ ops_mat[1].rank = 2
        THEN Ended(process_rank2_matrix(ops_mat[1].mat, norb, conserve_number, e_0),
                   calls \o <<"process_rank2_matrix">>, norb)
        ELSE IF Len(ops_mat) = 1 /\ ops_mat[1].rank = 4
                /\ check_diagonal_coulomb(ops_mat[1].mat)
        THEN Ended(Return(DiagonalCoulomb(ops_mat[1].mat, e_0)),
                   calls \o <<"check_diagonal_coulomb", "DiagonalCoulomb">>, norb)
        ELSE Ended(Return(GeneralOfRanks(ops_mat, norb, conserve_number, e_0)),
                   calls \o (IF Len(ops_mat) = 1 /\ ops_mat[1].rank = 4
                             THEN <<"check_diagonal_coulomb">> ELSE <<>>)
                         \o <<"General">>, norb)

\* lines 67-105
Densify(tseq, norb_given, conserve_number) ==
    LET transformed == IF ~conserve_number THEN transform_to_spin_broken(tseq) ELSE tseq
        ordered == normal_ordered(transformed)
        parts == split_openfermion_tensor(ordered)
    IN  IF parts.status = "raise"
        THEN Ended(parts, DenseCalls(conserve_number), norb_given)
        ELSE LET norb == InferNorb(parts.value.split, 0)
                 ops_mat == TomatrixEach(parts.value.split, norb, <<>>)
             IN  IF ops_mat.status = "raise"
                 THEN Ended(ops_mat,
                            DenseCalls(conserve_number) \o <<"fermionops_tomatrix">>,
                            norb)
                 ELSE Classify(ops_mat.value, norb, conserve_number, parts.value.e_0)

\* the test of line 61 on the terms other than the constant
FewTermsBesidesConstant(tseq) == Len(SelectSeq(tseq, LAMBDA e : e.term # <<>>)) <= 2

\* line 61: the operator goes to SparseHamiltonian
FewTerms(tseq) == Len(tseq) <= 2

\* lines 55-105, ops not a Hamiltonian and not a tuple
BuildFromOperator(arg, norb, conserve_number, e_0) ==
    IF arg.kind # "FermionOperator" THEN Ended(Raise("TypeError"), <<>>, norb)
    ELSE IF ~is_hermitian(arg.terms)
    THEN Ended(Raise("AssertionError"), <<"is_hermitian">>, norb)
    ELSE IF FewTerms(arg.terms)
    THEN Ended(Return(SparseHamiltonian(norb, arg.terms, conserve_number, e_0)),
               <<"is_hermitian", "SparseHamiltonian">>, norb)
    ELSE Densify(arg.terms, norb, conserve_number)

\* the function without lines 47-48
build_hamiltonian_without_line_47(arg, norb, conserve_number, e_0) ==
    IF arg.kind = "tuple"
    THEN Ended(Return(Hamiltonian("General", arg.arrays, conserve_number, e_0)),
               <<"validate_tuple", "General">>, norb)
    ELSE BuildFromOperator(arg, norb, conserve_number, e_0)

build_hamiltonian(arg, norb, conserve_number, e_0) ==
    IF arg.kind = "Hamiltonian" THEN Ended(Return(arg), <<>>, norb)
    ELSE IF arg.kind = "tuple"
    THEN Ended(Return(Hamiltonian("General", arg.arrays, conserve_number, e_0)),
               <<"validate_tuple", "General">>, norb)
    ELSE BuildFromOperator(arg, norb, conserve_number, e_0)

(***************************************************************************)
(* Calls of transform_to_spin_broken and split_openfermion_tensor.         *)
(* The argument is any operator of one or two terms, each of at most       *)
(* MaxFactors factors over one alpha (0) and one beta (1) spin orbital, in *)
(* any order of creation and annihilation operators.                       *)
(***************************************************************************)
NoKw == [norb |-> 0, conserve_number |-> TRUE, e_0 |-> Zero]

NoOut == [status |-> "none"]

SpinOrbitalsT == {0, 1}

FactorsT == SpinOrbitalsT \X {0, 1}

TermsT == UNION {[1..n -> FactorsT] : n \in 0..MaxFactors}

CoefsT == {Real(4), Real(-3)}

OperatorsT ==
    {<<Entry(t, c)>> : t \in TermsT, c \in CoefsT}
    \cup {<<Entry(t1, Real(4)), Entry(t2, Real(-3))>> :
              <<t1, t2>> \in {p \in TermsT \X TermsT : p[1] # p[2]}}

InitT ==
    /\ ops \in {FermionOperator(ts) : ts \in OperatorsT}
    /\ kw = NoKw
    /\ called = "none"
    /\ out = NoOut

CallTransform ==
    /\ called = "none"
    /\ ops.kind = "FermionOperator"
    /\ called' = "transform_to_spin_broken"
    /\ out' = Return(FermionOperator(transform_to_spin_broken(ops.terms)))
    /\ UNCHANGED <<ops, kw>>

CallSplit ==
    /\ called = "none"
    /\ ops.kind = "FermionOperator"
    /\ called' = "split_openfermion_tensor"
    /\ out' = split_openfermion_tensor(ops.terms)
    /\ UNCHANGED <<ops, kw>>

NextT == CallTransform \/ CallSplit

SpecT == InitT /\ [][NextT]_vars

(***************************************************************************)
(* Claims on transform_to_spin_broken and split_openfermion_tensor         *)
(***************************************************************************)
\* the k-th term of the transformed operator against the k-th term given:
\* same coefficient, as many factors, the same indices in the same order,
\* and the action of a factor changed exactly when Flipped(index) holds
SameButFlipped(given, got, Flipped(_)) ==
    /\ Len(got) = Len(given)
    /\ \A k \in 1..Len(given) :
          /\ got[k].coeff = given[k].coeff
          /\ Len(got[k].term) = Len(given[k].term)
          /\ \A f \in 1..Len(given[k].term) :
                /\ got[k].term[f][1] = given[k].term[f][1]
                /\ (got[k].term[f][2] # given[k].term[f][2])
                      <=> Flipped(given[k].term[f][1])

IsEven(index) == index % 2 = 0

IsOdd(index) == index % 2 = 1

\* C7 as claimed: transform_to_spin_broken keeps coefficient, factor order
\* and indices of every term and flips the creation/annihilation role of a
\* factor if and only if its orbital index is even (alpha).
C7_FlipsEvenIndices ==
    called = "transform_to_spin_broken"
        => SameButFlipped(ops.terms, out.value.terms, IsEven)

\* C7 as amended: transform_to_spin_broken keeps coefficient, factor order
\* and indices of every term and flips the creation/annihilation role of a
\* factor if and only if its orbital index is odd (beta); factors with an
\* even (alpha) index keep their role.
C7_FlipsOddIndices ==
    called = "transform_to_spin_broken"
        => SameButFlipped(ops.terms, out.value.terms, IsOdd)

\* a two-term operator whose first term has an alpha and a beta factor has
\* been transformed
C7_Witness ==
    /\ called = "transform_to_spin_broken"
    /\ Len(ops.terms) = 2
    /\ ops.terms[1].term = <<<<0, 1>>, <<1, 0>>>>
    /\ out.value.terms[1].term = <<<<0, 1>>, <<1, 1>>>>

HasOddRankTerm(tseq) == \E k \in 1..Len(tseq) : Len(tseq[k].term) % 2 = 1

SpinOrbitalsM == 0..MaxIndexM

OneBodyM == {<<<<p, 1>>, <<q, 0>>>> : p \in SpinOrbitalsM, q \in SpinOrbitalsM}

MisorderedM == {<<<<p, 0>>, <<p + 1, 1>>>> : p \in 0..(MaxIndexM - 1)}

TwoBodyM ==
    {<<<<p, 1>>, <<q, 1>>, <<r, 0>>, <<r + 1, 0>>>> :
        p \in SpinOrbitalsM, q \in SpinOrbitalsM, r \in 0..(MaxIndexM - 1)}

OperatorsM ==
    {<<Entry(t, Real(4))>> : t \in OneBodyM \cup MisorderedM \cup TwoBodyM}
    \cup {<<Entry(t1, Real(4)), Entry(t2, Real(-3))>> :
              <<t1, t2>> \in {p \in OneBodyM \X OneBodyM : p[1] # p[2]}}
    \cup {<<Entry(t1, Real(4)), Entry(t2, Real(-3))>> :
              <<t1, t2>> \in {<<<<0, 1>>, <<1, 1>>, <<1, 0>>, <<0, 0>>>>} \X OneBodyM}

InitM ==
    /\ ops \in {FermionOperator(ts) : ts \in OperatorsM}
    /\ kw \in {[NoKw EXCEPT !.norb = n] : n \in 0..MaxNorbM}
    /\ called = "none"
    /\ out = NoOut

CallTomatrix ==
    /\ called = "none"
    /\ ops.kind = "FermionOperator"
    /\ called' = "fermionops_tomatrix"
    /\ out' = fermionops_tomatrix(ops.terms, kw.norb)
    /\ UNCHANGED <<ops, kw>>

NextM == CallTomatrix

SpecM == InitM /\ [][NextM]_vars

(***************************************************************************)
(* Claim on the blocked index                                              *)
(***************************************************************************)
\* the factors of the operator: <<term number, position in the term>>
FactorsOf(tseq) ==
    {p \in (1..Len(tseq)) \X (1..ManyBodyOrder(tseq)) : p[2] <= Len(tseq[p[1]].term)}

\* C8: in every call of fermionops_tomatrix that returns, with norb the
\* block dimension used (half the axis length), the coordinate of a spin
\* orbital p is p//2 for even p and (p-1)//2 + norb for odd p; it lies in
\* [0, 2*norb), even p in [0, norb) and odd p in [norb, 2*norb); different
\* spin orbitals get different coordinates (norb = 4: 0 -> 0, 1 -> 4,
\* 7 -> 7); and each term's coefficient is the entry at the coordinates of
\* its factors, every other entry zero.
C8_BlockedIndex ==
    (called = "fermionops_tomatrix" /\ out.status = "return")
        => LET tseq == ops.terms
               norb == out.value.shape[1] \div 2
               Coord(p) == out.index_masks[p[1]][p[2]]
               Orbital(p) == tseq[p[1]].term[p[2]][1]
           IN  /\ kw.norb # 0 => norb = kw.norb
               /\ \A a \in 1..Len(out.value.shape) : out.value.shape[a] = 2 * norb
               /\ \A p \in FactorsOf(tseq) :
                     /\ Orbital(p) % 2 = 0 =>
                           /\ Coord(p) = Orbital(p) \div 2
                           /\ Coord(p) >= 0 /\ Coord(p) < norb
                     /\ Orbital(p) % 2 = 1 =>
                           /\ Coord(p) = (Orbital(p) - 1) \div 2 + norb
                           /\ Coord(p) >= norb /\ Coord(p) < 2 * norb
                     /\ norb = 4 =>
                           /\ Orbital(p) = 0 => Coord(p) = 0
                           /\ Orbital(p) = 1 => Coord(p) = 4
                           /\ Orbital(p) = 7 => Coord(p) = 7
               /\ \A p \in FactorsOf(tseq) : \A q \in FactorsOf(tseq) :
                     Orbital(p) # Orbital(q) => Coord(p) # Coord(q)
               /\ DOMAIN out.value.data = {out.index_masks[k] : k \in 1..Len(tseq)}
               /\ \A k \in 1..Len(tseq) :
                     out.value.data[out.index_masks[k]] = tseq[k].coeff

\* the operator 7^ 0 + 1^ 7 was converted with norb = 4
C8_Witness ==
    /\ called = "fermionops_tomatrix"
    /\ kw.norb = 4
    /\ Len(ops.terms) = 2
    /\ ops.terms[1].term = <<<<7, 1>>, <<0, 0>>>>
    /\ ops.terms[2].term = <<<<1, 1>>, <<7, 0>>>>
    /\ out.status = "return"
    /\ out.index_masks = <<<<7, 0>>, <<4, 7>>>>

(***************************************************************************)
(* Calls of process_rank2_matrix.  The argument is a Hermitian-completed   *)
(* matrix of dimension 2, 4, .. 2*MaxNorbR: at most MaxNonzero entries on  *)
(* or below the diagonal are 1.0 or 1e-8i, and every entry above the       *)
(* diagonal is the conjugate of its mirror image (an imaginary entry on    *)
(* the diagonal makes the matrix non-Hermitian).  norb is half the         *)
(* dimension, or 0.                                                        *)
(***************************************************************************)
ValuesR == {Real(2), TinyImag}

\* the positions on or below the diagonal, numbered row by row
LowerPositions(dim) == {c \in (0..(dim - 1)) \X (0..(dim - 1)) : c[2] <= c[1]}

PositionNumber(c) == (c[1] * (c[1] + 1)) \div 2 + c[2]

ChosenPositions(dim) ==
    UNION {{s \in [1..n -> LowerPositions(dim)] :
               \A a \in 1..n : \A b \in (a + 1)..n :
                   PositionNumber(s[a]) < PositionNumber(s[b])} :
           n \in 0..MaxNonzero}

HermitianMatrix(dim, pos, val) ==
    LET D == {pos[a] : a \in 1..Len(pos)} \cup {<<pos[a][2], pos[a][1]>> : a \in 1..Len(pos)}
        ValueAt(c) ==
            IF \E a \in 1..Len(pos) : pos[a] = c
            THEN val[CHOOSE a \in 1..Len(pos) : pos[a] = c]
            ELSE NConj(val[CHOOSE a \in 1..Len(pos) : pos[a] = <<c[2], c[1]>>])
    IN  [kind |-> "ndarray",
         array |-> [shape |-> <<dim, dim>>, data |-> [c \in D |-> ValueAt(c)]]]

MatricesR(norb) ==
    {HermitianMatrix(2 * norb, pv[1], pv[2]) :
        pv \in UNION {{s} \X [1..Len(s) -> ValuesR] : s \in ChosenPositions(2 * norb)}}

InitR ==
    /\ \E norb \in 1..MaxNorbR :
          /\ ops \in MatricesR(norb)
          /\ kw \in {[norb |-> n, conserve_number |-> TRUE, e_0 |-> Real(2)] :
                        n \in {0, norb}}
    /\ called = "none"
    /\ out = NoOut

CallProcessRank2 ==
    /\ called = "none"
    /\ ops.kind = "ndarray"
    /\ called' = "process_rank2_matrix"
    /\ out' = process_rank2_matrix(ops.array, kw.norb, kw.conserve_number, kw.e_0)
    /\ UNCHANGED <<ops, kw>>

NextR == CallProcessRank2

SpecR == InitR /\ [][NextR]_vars

(***************************************************************************)
(* Claims on process_rank2_matrix                                          *)
(***************************************************************************)
ExactlyHermitian(mat) ==
    \A c \in Coords(mat.shape) :
        TensorGet(mat, c) = NConj(TensorGet(mat, <<c[2], c[1]>>))

StrictLowerAllZero(mat) ==
    \A c \in Coords(mat.shape) : c[2] < c[1] => TensorGet(mat, c) = Zero

CrossBlockNonZero(mat, norb) ==
    \E i \in norb..(2 * norb - 1) : \E j \in 0..(norb - 1) :
        TensorGet(mat, <<i, j>>) # Zero

CrossBlocksZero(mat, norb) ==
    \A i \in norb..(2 * norb - 1) : \A j \in 0..(norb - 1) :
        TensorGet(mat, <<i, j>>) = Zero /\ TensorGet(mat, <<j, i>>) = Zero

SpinBlocksEqual(mat, norb) ==
    \A i \in 0..(norb - 1) : \A j \in 0..(norb - 1) :
        TensorGet(mat, <<i, j>>) = TensorGet(mat, <<i + norb, j + norb>>)

SpinBlocksWithinTolerance(mat, norb) ==
    \A i \in 0..(norb - 1) : \A j \in 0..(norb - 1) :
        IsClose(TensorGet(mat, <<i, j>>), TensorGet(mat, <<i + norb, j + norb>>))

\* a Hermitian matrix of dimension 2*norb was passed with that norb
Rank2CallInScope ==
    /\ called = "process_rank2_matrix"
    /\ kw.norb # 0
    /\ ops.array.shape = <<2 * kw.norb, 2 * kw.norb>>
    /\ ExactlyHermitian(ops.array)

FirstMatch(isDiagonal, isCoupled, isRestricted) ==
    IF isDiagonal THEN "Diagonal"
    ELSE IF isCoupled THEN "GSOHamiltonian"
    ELSE IF isRestricted THEN "Restricted"
    ELSE "SSOHamiltonian"

\* C3 as claimed: for a Hermitian matrix of dimension 2*norb the variant
\* returned is the first that matches of Diagonal (strict lower triangle
\* zero), GSO (an entry of rows norb..2*norb-1, columns 0..norb-1 is not
\* zero), Restricted (the alpha-alpha block equals the beta-beta block) and
\* SSO otherwise.
C3_FirstMatchExactBlocks ==
    Rank2CallInScope
        => /\ out.status = "return"
           /\ out.value.variant =
                 FirstMatch(StrictLowerAllZero(ops.array),
                            CrossBlockNonZero(ops.array, kw.norb),
                            SpinBlocksEqual(ops.array, kw.norb))

\* C3 as amended: the same order of precedence, the Restricted condition
\* being that the alpha-alpha block equals the beta-beta block within the
\* tolerance of numpy.allclose (|a - b| <= 1e-8 + 1e-5 * |b| entry by entry).
C3_FirstMatchWithinTolerance ==
    Rank2CallInScope
        => /\ out.status = "return"
           /\ out.value.variant =
                 FirstMatch(StrictLowerAllZero(ops.array),
                            CrossBlockNonZero(ops.array, kw.norb),
                            SpinBlocksWithinTolerance(ops.array, kw.norb))

\* a 4 x 4 matrix whose spin blocks are equal and not diagonal, with zero
\* cross blocks (it matches Restricted and neither variant before it), was
\* classified Restricted
C3_Witness ==
    /\ Rank2CallInScope
    /\ kw.norb = 2
    /\ ~StrictLowerAllZero(ops.array)
    /\ ~CrossBlockNonZero(ops.array, 2)
    /\ SpinBlocksEqual(ops.array, 2)
    /\ out.status = "return"
    /\ out.value.variant = "Restricted"

\* C4: for a Hermitian matrix of dimension 2*norb with equal top-left and
\* bottom-right norb x norb blocks and zero cross blocks, the call returns a
\* Restricted object equal to the one built from that single block.  It is
\* stated for the matrices with an entry below the diagonal; the others are
\* returned as Diagonal objects by the test that comes first.
C4_RestrictedFromSingleBlock ==
    (/\ Rank2CallInScope
     /\ ~StrictLowerAllZero(ops.array)
     /\ SpinBlocksEqual(ops.array, kw.norb)
     /\ CrossBlocksZero(ops.array, kw.norb))
        => /\ out.status = "return"
           /\ out.value =
                 Hamiltonian("Restricted",
                             <<Slice(ops.array, 0, kw.norb, 0, kw.norb)>>,
                             kw.conserve_number, kw.e_0)

(***************************************************************************)
(* Calls of build_hamiltonian.  The argument is a Hamiltonian object of    *)
(* any class, a tuple of arrays, a string, or an operator made of one or   *)
(* two of the following groups of terms over the spin orbitals             *)
(* 0..MaxIndex, in either order:                                           *)
(*   the constant 1.0;                                                     *)
(*   p^ p for the p of a set, 2.0 on even and -1.5 on odd p, or           *)
(*     (p + 1) / 2 on p;                                                   *)
(*   p^ q + q^ p with coefficient 1.0, or i * p^ q - i * q^ p;             *)
(*   p^ q alone (not Hermitian);                                           *)
(*   p^ q^ p q for the (p, q) of a set of pairs p > q, coefficient 1.0;    *)
(*   p^ q^ q p (not normal ordered);                                       *)
(*   p^ q^ r s + r^ s^ p q for two pairs p > q, r > s;                     *)
(*   p^ + p (odd rank).                                                    *)
(***************************************************************************)
SpinOrbitals == 0..MaxIndex

OrbitalPairs == {c \in SpinOrbitals \X SpinOrbitals : c[1] > c[2]}

Cre(p) == <<p, 1>>

Ann(p) == <<p, 0>>

Imag(halves) == Num(0, 0, halves, 0)

PairKey(c) == c[1] * (MaxIndex + 1) + c[2]

\* the orbitals of S in increasing order
RECURSIVE OrbitalsInOrder(_)
OrbitalsInOrder(S) ==
    IF S = {} THEN <<>>
    ELSE LET x == CHOOSE y \in S : \A z \in S : y <= z
         IN  <<x>> \o OrbitalsInOrder(S \ {x})

\* the pairs of S in increasing order of PairKey
RECURSIVE PairsInOrder(_)
PairsInOrder(S) ==
    IF S = {} THEN <<>>
    ELSE LET x == CHOOSE y \in S : \A z \in S : PairKey(y) <= PairKey(z)
         IN  <<x>> \o PairsInOrder(S \ {x})

\* 2.0 on even and -1.5 on odd orbitals
NumberTerm(p) == Entry(<<Cre(p), Ann(p)>>, IF p % 2 = 0 THEN Real(4) ELSE Real(-3))

\* 0.5, 1.0, 1.5, .. on the orbitals 0, 1, 2, ..
NumberTermGraded(p) == Entry(<<Cre(p), Ann(p)>>, Real(p + 1))

CoulombTerm(c) == Entry(<<Cre(c[1]), Cre(c[2]), Ann(c[1]), Ann(c[2])>>, Real(2))

ApplyTo(s, F(_)) == [k \in 1..Len(s) |-> F(s[k])]

TermGroups ==
    {<<Entry(<<>>, Real(2))>>}
    \cup {ApplyTo(OrbitalsInOrder(S), NumberTerm) : S \in SUBSET SpinOrbitals \ {{}}}
    \cup {ApplyTo(OrbitalsInOrder(S), NumberTermGraded) : S \in SUBSET SpinOrbitals \ {{}}}
    \cup {<<Entry(<<Cre(c[1]), Ann(c[2])>>, Real(2)),
             Entry(<<Cre(c[2]), Ann(c[1])>>, Real(2))>> : c \in OrbitalPairs}
    \cup {<<Entry(<<Cre(c[1]), Ann(c[2])>>, Imag(2)),
             Entry(<<Cre(c[2]), Ann(c[1])>>, Imag(-2))>> : c \in OrbitalPairs}
    \cup {<<Entry(<<Cre(c[1]), Ann(c[2])>>, Real(2))>> : c \in OrbitalPairs}
    \cup {ApplyTo(PairsInOrder(S), CoulombTerm) : S \in SUBSET OrbitalPairs \ {{}}}
    \cup {<<Entry(<<Cre(c[1]), Cre(c[2]), Ann(c[2]), Ann(c[1])>>, Real(2))>> :
              c \in OrbitalPairs}
    \cup {<<Entry(<<Cre(c[1][1]), Cre(c[1][2]), Ann(c[2][1]), Ann(c[2][2])>>, Real(2)),
             Entry(<<Cre(c[2][1]), Cre(c[2][2]), Ann(c[1][1]), Ann(c[1][2])>>, Real(2))>> :
              c \in {d \in OrbitalPairs \X OrbitalPairs : PairKey(d[1]) > PairKey(d[2])}}
    \cup {<<Entry(<<Cre(p)>>, Real(2)), Entry(<<Ann(p)>>, Real(2))>> : p \in SpinOrbitals}

OperatorsB ==
    TermGroups
    \cup {g[1] \o g[2] :
              g \in {h \in TermGroups \X TermGroups :
                        TermsOf(h[1]) \cap TermsOf(h[2]) = {}}}

Variants ==
    {"Diagonal", "Restricted", "GSOHamiltonian", "SSOHamiltonian",
     "DiagonalCoulomb", "General", "SparseHamiltonian"}

SomeMatrix == [shape |-> <<2, 2>>, data |-> (<<0, 0>> :> Real(4) @@ <<1, 1>> :> Real(-3))]

HamiltoniansB == {Hamiltonian(v, <<SomeMatrix>>, c, Real(2)) : v \in Variants, c \in BOOLEAN}

TuplesB ==
    {[kind |-> "tuple",
      arrays |-> <<SomeMatrix, Zeros(<<2, 2, 2, 2>>), Zeros(<<2, 2, 2, 2, 2, 2>>),
                   Zeros(<<2, 2, 2, 2, 2, 2, 2, 2>>)>>]}

KwB ==
    [norb : {0, MaxIndex + 1}, conserve_number : BOOLEAN, e_0 : {Zero, Real(2)}]

InitB ==
    /\ ops \in {FermionOperator(ts) : ts \in OperatorsB}
                \cup HamiltoniansB \cup TuplesB \cup {[kind |-> "str"]}
    /\ kw \in KwB
    /\ called = "none"
    /\ out = NoOut

CallBuildHamiltonian ==
    /\ called = "none"
    /\ called' = "build_hamiltonian"
    /\ out' = build_hamiltonian(ops, kw.norb, kw.conserve_number, kw.e_0)
    /\ UNCHANGED <<ops, kw>>

NextB == CallBuildHamiltonian

SpecB == InitB /\ [][NextB]_vars

(***************************************************************************)
(* Claims on build_hamiltonian                                             *)
(***************************************************************************)
BuildCalled == called = "build_hamiltonian"

BuildCalledOnOperator == BuildCalled /\ ops.kind = "FermionOperator"

\* C1: a Hamiltonian object of any class given to build_hamiltonian is
\* returned as it is, whatever norb, conserve_number and e_0 are, and
\* nothing is run on it: no Hermiticity check, transform, split or
\* constructor.
C1_HamiltonianReturnedUnchanged ==
    (BuildCalled /\ ops.kind = "Hamiltonian")
        => /\ out.status = "return"
           /\ out.value = ops
           /\ out.calls = <<>>

\* a Restricted object was passed with norb, conserve_number and e_0 all
\* different from their defaults
C1_Witness ==
    /\ BuildCalled
    /\ ops.kind = "Hamiltonian"
    /\ ops.variant = "Restricted"
    /\ kw.norb # 0 /\ ~kw.conserve_number /\ kw.e_0 # Zero
    /\ out.status = "return"

\* every term is c_p * p^ p, and there is one at least
OnlyNumberTerms(tseq) ==
    /\ tseq # <<>>
    /\ \A k \in 1..Len(tseq) :
          \E q \in SpinOrbitals : tseq[k].term = <<<<q, 1>>, <<q, 0>>>>

\* the blocked index as the data model of the interface states it
BlockedCoordinate(q, norb) ==
    IF q % 2 = 1 THEN (q - 1) \div 2 + norb ELSE q \div 2

\* the least norb that holds every orbital of the terms
RequiredNorb(tseq) == MaxOf({q \div 2 + 1 : q \in IndicesOf(tseq)}, 0)

\* the diagonal holding each c_p at the blocked index of p
ExpectedDiagonal(tseq) ==
    LET norb == RequiredNorb(tseq)
        D == {<<BlockedCoordinate(tseq[k].term[1][1], norb)>> : k \in 1..Len(tseq)}
        At(c) == tseq[CHOOSE k \in 1..Len(tseq) :
                          BlockedCoordinate(tseq[k].term[1][1], norb) = c[1]].coeff
    IN  [shape |-> <<2 * norb>>, data |-> [c \in D |-> At(c)]]

IsDiagonalOf(value, tseq) ==
    value.variant = "Diagonal" /\ value.tensors = <<ExpectedDiagonal(tseq)>>

NumberTermsCallInScope ==
    /\ BuildCalledOnOperator
    /\ kw.conserve_number
    /\ OnlyNumberTerms(ops.terms)

\* C2 as claimed: a number-conserving operator whose terms are all of the
\* form c_p * p^ p, the two-term one with 2.0 on orbital 0 and -1.5 on
\* orbital 1 included, becomes a Diagonal object whose diagonal holds each
\* c_p at the blocked index of p.
C2_NumberTermsGiveDiagonal ==
    NumberTermsCallInScope
        => /\ out.status = "return"
           /\ IsDiagonalOf(out.value, ops.terms)

\* C2 as amended: such an operator of three or more terms becomes a
\* Diagonal object whose diagonal holds each c_p at the blocked index of p;
\* one of one or two terms (the two-term one with 2.0 and -1.5 included) is
\* returned as a SparseHamiltonian holding the operator.
C2_ThreeNumberTermsGiveDiagonal ==
    NumberTermsCallInScope
        => /\ out.status = "return"
           /\ Len(ops.terms) >= 3 => IsDiagonalOf(out.value, ops.terms)
           /\ Len(ops.terms) <= 2 =>
                 /\ out.value.variant = "SparseHamiltonian"
                 /\ out.value.operators = ops.terms

\* 2.0 * 0^ 0 - 1.5 * 1^ 1 + 2.0 * 2^ 2 was built: dimension 4, the
\* coefficient of orbital 1 at coordinate 2 and that of orbital 2 at 1
C2_Witness ==
    /\ NumberTermsCallInScope
    /\ Len(ops.terms) = 3
    /\ ops.terms[2] = Entry(<<<<1, 1>>, <<1, 0>>>>, Real(-3))
    /\ out.status = "return"
    /\ out.value.variant = "Diagonal"
    /\ out.value.tensors[1].shape = <<4>>
    /\ out.value.tensors[1].data =
          (<<0>> :> Real(4) @@ <<1>> :> Real(4) @@ <<2>> :> Real(-3))

\* the operator that line 72 splits
OrderedOperator ==
    normal_ordered(IF kw.conserve_number THEN ops.terms
                   ELSE transform_to_spin_broken(ops.terms))

NonConstant(tseq) == SelectSeq(tseq, LAMBDA e : e.term # <<>>)

\* rank 4 is the only rank besides 0 among the terms that are split, and
\* the call returns
OnlyRank4CallInScope ==
    /\ BuildCalledOnOperator
    /\ out.status = "return"
    /\ LET ordered == OrderedOperator
       IN  /\ NonConstant(ordered) # <<>>
           /\ \A k \in 1..Len(ordered) : Len(ordered[k].term) \in {0, 4}
    /\ is_hermitian(ops.terms)

\* every rank-4 term is p^ q^ p q: its coefficient lands on an entry
\* [i, j, k, l] with i = k and j = l; the terms are pairwise different, so
\* these are all the entries that are not zero
OnlyDensityDensityTerms(tseq) ==
    \A k \in 1..Len(tseq) :
        Len(tseq[k].term) = 4
            => /\ tseq[k].term[1][1] = tseq[k].term[3][1]
               /\ tseq[k].term[2][1] = tseq[k].term[4][1]

\* the General object of the rank-2, rank-4, rank-6 and rank-8 tensors, the
\* rank-4 tensor holding an entry off the pattern and the others zero
IsGeneralAroundRank4(value, norb) ==
    /\ value.variant = "General"
    /\ Len(value.tensors) = 4
    /\ value.tensors[1] = Zeros(<<2 * norb, 2 * norb>>)
    /\ value.tensors[2].shape = <<2 * norb, 2 * norb, 2 * norb, 2 * norb>>
    /\ \E c \in DOMAIN value.tensors[2].data : c[1] # c[3] \/ c[2] # c[4]
    /\ value.tensors[3] = Zeros([a \in 1..6 |-> 2 * norb])
    /\ value.tensors[4] = Zeros([a \in 1..8 |-> 2 * norb])

\* the rank-4 tensor of a DiagonalCoulomb or General result
Rank4TensorOf(value) ==
    IF value.variant = "DiagonalCoulomb" THEN value.tensors[1] ELSE value.tensors[2]

\* every entry of the tensor that is not zero is at [i, j, k, l] with i = k
\* and j = l
OnlyDensityDensityEntries(tensor) ==
    \A c \in DOMAIN tensor.data :
        NonZero(tensor.data[c]) => c[1] = c[3] /\ c[2] = c[4]

Rank4Outcome ==
    /\ out.value.variant \in {"DiagonalCoulomb", "General"}
    /\ OnlyDensityDensityEntries(Rank4TensorOf(out.value))
          <=> OnlyDensityDensityTerms(OrderedOperator)
    /\ IF OnlyDensityDensityEntries(Rank4TensorOf(out.value))
       THEN out.value.variant = "DiagonalCoulomb"
       ELSE IsGeneralAroundRank4(out.value, out.norb)

C5_WitnessGeneral ==
    /\ OnlyRank4CallInScope
    /\ Len(ops.terms) = 3
    /\ ~OnlyDensityDensityTerms(OrderedOperator)
    /\ out.value.variant = "General"

HermitianOperatorCallInScope == BuildCalledOnOperator /\ is_hermitian(ops.terms)

RoutedToSparse ==
    /\ out.status = "return"
    /\ out.value.variant = "SparseHamiltonian"
    /\ out.value.operators = ops.terms
    /\ out.calls = <<"is_hermitian", "SparseHamiltonian">>

\* C6 as claimed: a Hermitian operator goes to the sparse class, without
\* densification, exactly when it has two or fewer terms not counting the
\* constant term.
C6_SparseByNonConstantTerms ==
    HermitianOperatorCallInScope
        => (RoutedToSparse <=> Len(NonConstant(ops.terms)) <= 2)

\* C6 as amended: a Hermitian operator goes to the sparse class, without
\* densification, exactly when it has two or fewer terms, the constant term
\* counted; one of two other terms and a constant is densified.
C6_SparseByAllTerms ==
    HermitianOperatorCallInScope
        => (RoutedToSparse <=> Len(ops.terms) <= 2)

\* an operator of a constant and two other terms was densified
C6_Witness ==
    /\ HermitianOperatorCallInScope
    /\ Len(ops.terms) = 3
    /\ Len(NonConstant(ops.terms)) = 2
    /\ "fermionops_tomatrix" \in {out.calls[k] : k \in 1..Len(out.calls)}

\* the call reached the loop of lines 75-77
NorbInferred ==
    /\ BuildCalledOnOperator
    /\ "fermionops_tomatrix" \in {out.calls[k] : k \in 1..Len(out.calls)}

\* C10: the norb shared by the tensors of all ranks is the largest block
\* requirement (alpha or beta) over the ranks present, however many ranks
\* there are and in whatever order, and every tensor of a General result
\* has all its axes of length 2*norb.
C10_NorbIsLargestRequirement ==
    NorbInferred
        => /\ out.norb = RequiredNorb(NonConstant(OrderedOperator))
           /\ (out.status = "return" /\ out.value.variant = "General")
                 => \A r \in 1..4 : \A a \in 1..(2 * r) :
                        out.value.tensors[r].shape[a] = 2 * out.norb

====
